---- MODULE Spec2Model ----
(***************************************************************************)
(* Model of TheWorkshop: the Workshop command engine (src/workshop.py),    *)
(* its Participant objects (src/participant.py) and the provider wrapper   *)
(* (src/llm_interface.py).                                                 *)
(*                                                                         *)
(* The Workshop instance is the record `workshop`; a caller issues one     *)
(* handle_command call at a time.  An exception that leaves handle_command *)
(* is recorded in `raised`; the caller may catch it and go on issuing      *)
(* commands to the same instance.  Text is modelled as sequences of        *)
(* one-character strings so that split, lower, startswith and isdigit are  *)
(* computed as the code computes them.                                     *)
(***************************************************************************)
EXTENDS Integers, Sequences, FiniteSets, TLC

VARIABLES
    workshop,    \* the Workshop instance: one field per attribute set in __init__
    disk,        \* the snapshot file written by save_state and read by load_state
    uuid_count,  \* number of uuid4 values drawn so far (each Participant() draws one)
    raised,      \* the exception that left the last handle_command call, or "none"
    turns_left,  \* handle_next_command: iterations of `for _ in range(turn_to_take)` still to run
    loop_args,   \* handle_next_command: `args` after the count has been removed, <<>> outside the loop
    outcome,     \* what the last step did (its handler's branch)
    exited       \* TRUE once sys.exit(0) has run

vars == <<workshop, disk, uuid_count, raised, turns_left, loop_args, outcome, exited>>

----------------------------------------------------------------------------
(* Bounds of the model *)

MaxFeedback    == 5   \* longest control_feedback a step may leave
MaxDiagnostics == 1   \* most error and usage lines control_feedback may hold
MaxTurn        == 3   \* highest current_turn a step may leave
MaxUuid        == 4   \* most uuids drawn
MaxAdminAt     == 2   \* most control messages before an administrative line
MaxConfig      == 3   \* most participant entries the merged configuration may hold

----------------------------------------------------------------------------
(* Text *)

Upper == <<"A","B","C","D","E","F","G","H","I","J","K","L","M",
           "N","O","P","Q","R","S","T","U","V","W","X","Y","Z">>
Lower == <<"a","b","c","d","e","f","g","h","i","j","k","l","m",
           "n","o","p","q","r","s","t","u","v","w","x","y","z">>
Digits == {"0","1","2","3","4","5","6","7","8","9"}

\* str.lower() on one character
lower_char(c) ==
    IF \E i \in 1..26 : Upper[i] = c
    THEN Lower[CHOOSE i \in 1..26 : Upper[i] = c]
    ELSE c

\* str.lower()
lower(s) == [i \in 1..Len(s) |-> lower_char(s[i])]

\* str.startswith(prefix)
startswith(s, prefix) ==
    /\ Len(prefix) <= Len(s)
    /\ \A i \in 1..Len(prefix) : s[i] = prefix[i]

\* str.isdigit(): non-empty and every character a digit
isdigit(s) == Len(s) > 0 /\ \A i \in 1..Len(s) : s[i] \in Digits

digit_value(c) ==
    CASE c = "0" -> 0 [] c = "1" -> 1 [] c = "2" -> 2 [] c = "3" -> 3 [] c = "4" -> 4
      [] c = "5" -> 5 [] c = "6" -> 6 [] c = "7" -> 7 [] c = "8" -> 8 [] c = "9" -> 9

RECURSIVE int(_)
\* int(s) for a string of digits
int(s) == IF s = <<>> THEN 0
          ELSE 10 * int(SubSeq(s, 1, Len(s) - 1)) + digit_value(s[Len(s)])

RECURSIVE lstrip(_)
\* str.lstrip(): drop leading whitespace
lstrip(s) == IF s # <<>> /\ Head(s) = " " THEN lstrip(Tail(s)) ELSE s

\* s[:n]
slice_to(s, n) == SubSeq(s, 1, IF Len(s) < n THEN Len(s) ELSE n)

\* " ".join(args)
RECURSIVE join(_)
join(args) == IF args = <<>> THEN <<>>
              ELSE IF Len(args) = 1 THEN args[1]
              ELSE args[1] \o <<" ">> \o join(Tail(args))

\* the verbs handle_command compares cmd with
V_load    == <<"l","o","a","d">>
V_show    == <<"s","h","o","w">>
V_start   == <<"s","t","a","r","t">>
V_say     == <<"s","a","y">>
V_next    == <<"n","e","x","t">>
V_end     == <<"e","n","d">>
V_util    == <<"u","t","i","l">>
V_backup  == <<"b","a","c","k","u","p">>
V_restore == <<"r","e","s","t","o","r","e">>
V_exit    == <<"e","x","i","t">>

----------------------------------------------------------------------------
(* Participant *)

\* Python's None where a Participant is expected
None == [uuid |-> 0, name |-> <<>>, is_facilitator |-> FALSE,
         contributions |-> 0, last_spoke_turn |-> 0]

\* Participant(name=..., is_facilitator=...): a fresh uuid, zeroed bookkeeping.
\* role, background, mood and prompts are never written after construction
\* and are left out.
Participant(uuid, name, is_facilitator) ==
    [uuid |-> uuid, name |-> name, is_facilitator |-> is_facilitator,
     contributions |-> 0, last_spoke_turn |-> 0]

\* Participant.update_stats
update_stats(p, current_turn) ==
    [p EXCEPT !.contributions = @ + 1, !.last_spoke_turn = current_turn]

\* Participant.check_reponse: the checker's answer decides the tag
check_reponse(answer) == slice_to(lower(lstrip(answer)), 4) = <<"p","a","s","s">>

----------------------------------------------------------------------------
(* The provider (LLMInterface) *)

\* What the provider does with one call: ok = FALSE is a transport failure or
\* a reply without the expected keys (client.chat or a subscript raises).
ProviderError == "ProviderError"

Reply(ok, content, tokens) == [ok |-> ok, content |-> content, tokens |-> tokens]

\* LLMInterface.get_response: the (content, tokens) pair when get_tokens is
\* set, otherwise the raw response mapping.
get_response(reply, get_tokens) ==
    IF ~reply.ok
    THEN [exc |-> ProviderError, kind |-> "none", content |-> <<>>, tokens |-> 0]
    ELSE IF get_tokens
    THEN [exc |-> "none", kind |-> "str", content |-> reply.content, tokens |-> reply.tokens]
    ELSE [exc |-> "none", kind |-> "dict", content |-> reply.content, tokens |-> reply.tokens]

PASS_PREFIX == <<"P","A","S","S",":"," ">>
FAIL_PREFIX == <<"F","A","I","L",":"," ">>

\* Participant.generate_response: one provider call for the contribution, a
\* second one (check_reponse) for the tag.  The per-participant log files
\* under state/ are taken to be writable.
generate_response(gen, chk) ==
    LET r == get_response(gen, TRUE)
        c == get_response(chk, TRUE)
    IN  IF r.exc # "none" THEN [exc |-> r.exc, response |-> <<>>, tokens |-> 0]
        ELSE IF c.exc # "none" THEN [exc |-> c.exc, response |-> <<>>, tokens |-> 0]
        ELSE [exc |-> "none",
              response |-> (IF check_reponse(c.content) THEN PASS_PREFIX ELSE FAIL_PREFIX)
                           \o r.content,
              tokens |-> r.tokens]

----------------------------------------------------------------------------
(* Workshop *)

NOT_STARTED == 0
STARTED     == 1
ENDING      == 2

\* feedback lines; the text after a name or filename is dropped
M_WARN_NO_FACILITATOR == "Warning: No facilitator defined. First participant will be set as facilitator."
M_UNKNOWN        == "Unknown command"
M_INVALID        == "Invalid command format. Commands should start with '/'"
M_EXITING        == "Exiting workshop."
M_SAVED          == "Workshop state saved"
M_SAVE_ERROR     == "Error saving workshop state"
M_USAGE_SAVE     == "Usage: /save [filename]"
M_LOADED         == "Workshop state loaded"
M_LOAD_ERROR     == "Error loading workshop state"
M_USAGE_LOAD     == "Usage: /load [filename]"
M_CONFIG_LOADED  == "Configuration file loaded and merged."
M_CONFIG_ERROR   == "Error loading configuration file"
M_CURRENT_CONFIG == "Current configuration:"
M_PRETTY         == "<rich.pretty.Pretty object>"
M_ALREADY        == "Workshop is already in progress."
M_NO_WORKSHOP    == "Please create a workshop via loading config before starting."
M_NO_PARTICIPANTS == "No participants found. Please load a configuration with participants."
M_STARTED        == "Workshop started. Use /next to proceed with turns."
M_USAGE_SAY      == "Usage: /say [content]"
M_NOT_STARTED    == "Workshop hasn't started. Use /start to begin the workshop."
M_NO_MATCH       == "No participant found whose name starts with the given string"
M_ENDED          == "Workshop session ended."
M_F_SPOKE        == "(F) has spoken. Use /next to continue."
M_P_SPOKE        == "has spoken. Use /next to continue."
M_USAGE_UTIL     == "Usage: /util [action] [parameters]"
M_UNKNOWN_UTIL   == "Unknown util action"

\* Workshop.__init__ (main constructs it with context_length=32000)
ContextLength == 32000

NewWorkshop ==
    [transcript_content |-> <<>>,
     control_feedback |-> <<>>,
     global_config |-> [workshop |-> [name |-> <<>>], participants |-> <<>>],
     participants |-> <<>>,
     facilitator |-> None,
     current_participant_index |-> -1,
     state |-> NOT_STARTED,
     previous_participant |-> None,
     current_turn |-> 0,
     tokens_used |-> 0,
     context_length |-> ContextLength,
     current_round |-> 0]

\* self.control_feedback.append(msg)
feedback(s, msg) == [s EXCEPT !.control_feedback = Append(@, msg)]

\* TranscriptEntry(round=..., turn=..., participant_uuid=..., content=...)
TranscriptEntry(round, turn, participant_uuid, content) ==
    [round |-> round, turn |-> turn, participant_uuid |-> participant_uuid,
     content |-> content]

\* what a handler hands back: the instance as it left it, and the exception
\* that ended it ("none" when it returned), and the branch it took
Done(s, branch) == [w |-> s, exc |-> "none", branch |-> branch]
Raise(s, e, branch) == [w |-> s, exc |-> e, branch |-> branch]

\* a prompt: the fixed text of its f-string and the values interpolated into
\* it, the configuration (or a part of it), the transcript and the text the
\* caller supplied; a value that is not interpolated is the empty sequence
Prompt(template, config, transcript, supplied) ==
    [template |-> template, config |-> config, transcript |-> transcript,
     supplied |-> supplied]

\* Workshop.get_transcript: str(entry) of every entry
get_transcript(s) == s.transcript_content

\* handle_start_command: the prompt it hands to take_facilitator_turn
start_prompt(s, args) ==
    IF args # <<>> THEN Prompt("", <<>>, <<>>, join(args))
    ELSE Prompt("Let's begin our workshop session.", <<s.global_config.workshop>>,
                <<>>, <<>>)

\* handle_say_command: the prompt it hands to take_facilitator_turn
say_prompt(s, args) ==
    Prompt("Say this in your voice.", <<s.global_config>>, get_transcript(s),
           join(args))

\* take_facilitator_turn: the prompt it hands to generate_response.  The
\* f-string is assigned to the name of the parameter, whose value is dropped.
facilitator_prompt(s, prompt) ==
    Prompt("You are the workshop facilitator!", <<s.global_config>>,
           get_transcript(s), <<>>)

\* take_facilitator_turn without `self.current_turn += 1`: the facilitator
\* speaks under the turn number of the entry before
take_facilitator_turn_same_turn(s, prompt, gen, chk) ==
    LET s1 == [s EXCEPT !.previous_participant = s.facilitator]
        r  == generate_response(gen, chk)
        entry == TranscriptEntry(s1.current_round, s1.current_turn,
                                 s1.facilitator.uuid, r.response)
    IN  IF s1.facilitator = None THEN Raise(s1, "AttributeError", "turn_failed")
        ELSE IF r.exc # "none" THEN Raise(s1, r.exc, "turn_failed")
        ELSE Done([feedback(s1, M_F_SPOKE) EXCEPT
                      !.transcript_content = Append(@, entry),
                      !.tokens_used = r.tokens], "spoke")

\* Workshop.take_facilitator_turn.  The attribute access on a facilitator that
\* is None raises after previous_participant and current_turn were written.
\* generate_response is called with facilitator_prompt(s1, prompt).
take_facilitator_turn(s, prompt, gen, chk) ==
    LET s1 == [s EXCEPT !.previous_participant = s.facilitator,
                        !.current_turn = @ + 1]
        r  == generate_response(gen, chk)
        entry == TranscriptEntry(s1.current_round, s1.current_turn,
                                 s1.facilitator.uuid, r.response)
    IN  IF s1.facilitator = None THEN Raise(s1, "AttributeError", "turn_failed")
        ELSE IF r.exc # "none" THEN Raise(s1, r.exc, "turn_failed")
        ELSE Done([feedback(s1, M_F_SPOKE) EXCEPT
                      !.transcript_content = Append(@, entry),
                      !.tokens_used = r.tokens], "spoke")

\* take_participant_turn with `self.current_turn += 1` moved ahead of the
\* test for None
take_participant_turn_counts_none(s, i, gen, chk) ==
    IF i = 0 THEN Done([s EXCEPT !.current_turn = @ + 1], "no_turn")
    ELSE
    LET turn == s.current_turn + 1
        p  == update_stats(s.participants[i], turn)
        s1 == [s EXCEPT !.previous_participant = p,
                        !.current_turn = turn,
                        !.participants[i] = p]
        r  == generate_response(gen, chk)
        entry == TranscriptEntry(s1.current_round, s1.current_turn, p.uuid, r.response)
    IN  IF r.exc # "none" THEN Raise(s1, r.exc, "turn_failed")
        ELSE Done([feedback(s1, M_P_SPOKE) EXCEPT
                      !.transcript_content = Append(@, entry),
                      !.tokens_used = r.tokens], "spoke")

\* take_participant_turn with `self.current_turn += 1` moved behind the
\* provider call: a failed turn leaves the counter where it was
take_participant_turn_counts_replies(s, i, gen, chk) ==
    IF i = 0 THEN Done(s, "no_turn")
    ELSE
    LET turn == s.current_turn + 1
        p  == update_stats(s.participants[i], turn)
        s1 == [s EXCEPT !.previous_participant = p, !.participants[i] = p]
        r  == generate_response(gen, chk)
        entry == TranscriptEntry(s1.current_round, turn, p.uuid, r.response)
    IN  IF r.exc # "none" THEN Raise(s1, r.exc, "turn_failed")
        ELSE Done([feedback(s1, M_P_SPOKE) EXCEPT
                      !.current_turn = turn,
                      !.transcript_content = Append(@, entry),
                      !.tokens_used = r.tokens], "spoke")

\* Workshop.take_participant_turn for the participant at index i of
\* self.participants (i = 0: participant is None).  previous_participant
\* refers to the same object, so it shows the updated stats.
take_participant_turn(s, i, gen, chk) ==
    IF i = 0 THEN Done(s, "no_turn")
    ELSE
    LET turn == s.current_turn + 1
        p  == update_stats(s.participants[i], turn)
        s1 == [s EXCEPT !.previous_participant = p,
                        !.current_turn = turn,
                        !.participants[i] = p]
        r  == generate_response(gen, chk)
        entry == TranscriptEntry(s1.current_round, s1.current_turn, p.uuid, r.response)
    IN  IF r.exc # "none" THEN Raise(s1, r.exc, "turn_failed")
        ELSE Done([feedback(s1, M_P_SPOKE) EXCEPT
                      !.transcript_content = Append(@, entry),
                      !.tokens_used = r.tokens], "spoke")

\* the i-th to last elements of a list for which keep holds, in order
RECURSIVE select_from(_, _, _)
select_from(seq, keep(_), i) ==
    IF i > Len(seq) THEN <<>>
    ELSE (IF keep(seq[i]) THEN <<seq[i]>> ELSE <<>>) \o select_from(seq, keep, i + 1)

\* the indices of the elements of a list for which keep holds, ascending
RECURSIVE indices_from(_, _, _)
indices_from(seq, keep(_), i) ==
    IF i > Len(seq) THEN <<>>
    ELSE (IF keep(seq[i]) THEN <<i>> ELSE <<>>) \o indices_from(seq, keep, i + 1)

\* extract_participants with self.participants[0] for self.participants.pop(0):
\* the promoted participant stays in the list
extract_participants_keeps_promoted(s, base) ==
    LET cfg  == s.global_config.participants
        made == [k \in 1..Len(cfg) |->
                    Participant(base + k, cfg[k].name, cfg[k].is_facilitator)]
        IsF(p) == p.is_facilitator
        NotF(p) == ~p.is_facilitator
        marked == select_from(made, IsF, 1)
        fac1  == IF marked # <<>> THEN marked[Len(marked)] ELSE s.facilitator
        pool1 == s.participants \o select_from(made, NotF, 1)
        s1 == [s EXCEPT !.facilitator = fac1, !.participants = pool1]
    IN  IF fac1 # None THEN s1
        ELSE IF pool1 # <<>>
        THEN [feedback(s1, M_WARN_NO_FACILITATOR) EXCEPT
                 !.facilitator = [Head(pool1) EXCEPT !.is_facilitator = TRUE],
                 !.participants[1] = [Head(pool1) EXCEPT !.is_facilitator = TRUE]]
        ELSE feedback(s1, M_WARN_NO_FACILITATOR)

\* Workshop.extract_participants up to the shuffle: one Participant per
\* configured entry (entry k draws uuid base + k); a marked entry replaces
\* self.facilitator, an unmarked one is appended to self.participants; with
\* no facilitator the warning is logged and the head of the list is promoted.
extract_participants_unshuffled(s, base) ==
    LET cfg  == s.global_config.participants
        made == [k \in 1..Len(cfg) |->
                    Participant(base + k, cfg[k].name, cfg[k].is_facilitator)]
        IsF(p) == p.is_facilitator
        NotF(p) == ~p.is_facilitator
        marked == select_from(made, IsF, 1)
        fac1  == IF marked # <<>> THEN marked[Len(marked)] ELSE s.facilitator
        pool1 == s.participants \o select_from(made, NotF, 1)
        s1 == [s EXCEPT !.facilitator = fac1, !.participants = pool1]
    IN  IF fac1 # None THEN s1
        ELSE IF pool1 # <<>>
        THEN [feedback(s1, M_WARN_NO_FACILITATOR) EXCEPT
                 !.facilitator = [Head(pool1) EXCEPT !.is_facilitator = TRUE],
                 !.participants = Tail(pool1)]
        ELSE feedback(s1, M_WARN_NO_FACILITATOR)

\* Workshop.extract_participants: random.shuffle leaves the list in the
\* order perm (a permutation of its indices)
extract_participants(s, base, perm) ==
    LET s1 == extract_participants_unshuffled(s, base)
    IN  [s1 EXCEPT !.participants = [k \in 1..Len(@) |-> @[perm[k]]]]

\* handle_start_command with `self.state = WorkshopState.STARTED` moved
\* ahead of the roster check
handle_start_command_starts_early(s, args, base, perm, gen, chk) ==
    IF s.state = STARTED THEN Done(feedback(s, M_ALREADY), "already")
    ELSE IF s.global_config.workshop.name = <<>> THEN Done(feedback(s, M_NO_WORKSHOP), "unnamed")
    ELSE
    LET s1 == [extract_participants(s, base, perm) EXCEPT !.state = STARTED]
        prompt == start_prompt(s, args)
        s2 == feedback(s1, M_STARTED)
    IN  IF s1.participants = <<>> THEN Done(feedback(s1, M_NO_PARTICIPANTS), "empty_roster")
        ELSE take_facilitator_turn(s2, prompt, gen, chk)

\* handle_start_command without the test for a session in progress
handle_start_command_restarts(s, args, base, perm, gen, chk) ==
    IF s.global_config.workshop.name = <<>> THEN Done(feedback(s, M_NO_WORKSHOP), "unnamed")
    ELSE
    LET s1 == extract_participants(s, base, perm)
        prompt == start_prompt(s, args)
        s2 == [feedback(s1, M_STARTED) EXCEPT !.state = STARTED]
    IN  IF s1.participants = <<>> THEN Done(feedback(s1, M_NO_PARTICIPANTS), "empty_roster")
        ELSE take_facilitator_turn(s2, prompt, gen, chk)

\* Workshop.handle_start_command
handle_start_command(s, args, base, perm, gen, chk) ==
    IF s.state = STARTED THEN Done(feedback(s, M_ALREADY), "already")
    ELSE IF s.global_config.workshop.name = <<>> THEN Done(feedback(s, M_NO_WORKSHOP), "unnamed")
    ELSE
    LET s1 == extract_participants(s, base, perm)
        prompt == start_prompt(s, args)
        s2 == [feedback(s1, M_STARTED) EXCEPT !.state = STARTED]
    IN  IF s1.participants = <<>> THEN Done(feedback(s1, M_NO_PARTICIPANTS), "empty_roster")
        ELSE take_facilitator_turn(s2, prompt, gen, chk)

\* Workshop.handle_say_command
handle_say_command(s, args, gen, chk) ==
    IF Len(args) >= 1
    THEN take_facilitator_turn(s, say_prompt(s, args), gen, chk)
    ELSE Done(feedback(s, M_USAGE_SAY), "usage")

\* Workshop.handle_endsession_command
handle_endsession_command(s) ==
    Done([feedback(s, M_ENDED) EXCEPT !.state = ENDING], "ended")

\* pick_participant_by_name with matching_participants[-1] for
\* matching_participants[0]
pick_participant_by_name_last_match(s, name) ==
    LET Matches(p) == startswith(lower(p.name), lower(name))
        matching_participants == indices_from(s.participants, Matches, 1)
    IN  IF matching_participants # <<>>
        THEN [w |-> s, next_participant |-> matching_participants[Len(matching_participants)],
              exc |-> "none"]
        ELSE [w |-> feedback(s, M_NO_MATCH), next_participant |-> 0, exc |-> "none"]

\* Workshop.pick_participant_by_name: the index of the first participant
\* whose lowered name starts with the lowered query, 0 for None
pick_participant_by_name(s, name) ==
    LET Matches(p) == startswith(lower(p.name), lower(name))
        matching_participants == indices_from(s.participants, Matches, 1)
    IN  IF matching_participants # <<>>
        THEN [w |-> s, next_participant |-> matching_participants[1], exc |-> "none"]
        ELSE [w |-> feedback(s, M_NO_MATCH), next_participant |-> 0, exc |-> "none"]

\* str.strip()
RECURSIVE rstrip(_)
rstrip(s) == IF s # <<>> /\ s[Len(s)] = " " THEN rstrip(SubSeq(s, 1, Len(s) - 1)) ELSE s
strip(s) == rstrip(lstrip(s))

\* s.split(sep)[-1]: what follows the last occurrence of sep, s without one
split_last(s, sep) ==
    LET At(i) == i + Len(sep) - 1 <= Len(s) /\ SubSeq(s, i, i + Len(sep) - 1) = sep
        hits == {i \in 1..Len(s) : At(i)}
    IN  IF hits = {} THEN s
        ELSE LET i == CHOOSE h \in hits : \A g \in hits : g <= h
             IN  SubSeq(s, i + Len(sep), Len(s))

NEXT_SPEAKER == <<"N","e","x","t"," ","s","p","e","a","k","e","r",":">>

\* Workshop.llm_pick_participant: get_response is called with
\* get_tokens=False and returns the response mapping, which has no split.
llm_pick_participant(s, reply) ==
    LET suggestion == get_response(reply, FALSE)
        suggested_name == strip(split_last(suggestion.content, NEXT_SPEAKER))
    IN  IF suggestion.exc # "none"
        THEN [w |-> s, next_participant |-> 0, exc |-> suggestion.exc]
        ELSE IF suggestion.kind # "str"
        THEN [w |-> s, next_participant |-> 0, exc |-> "AttributeError"]
        ELSE pick_participant_by_name(s, suggested_name)

\* `available_participants` without the filter on previous_participant
available_participants_unfiltered(s) == [k \in 1..Len(s.participants) |-> k]

\* handle_next_command, `available_participants`: the indices of the
\* participants that differ (dataclass ==) from previous_participant, all
\* indices when there is none
available_participants(s) ==
    LET NotPrevious(p) == p # s.previous_participant
        others == indices_from(s.participants, NotPrevious, 1)
    IN  IF others # <<>> THEN others
        ELSE [k \in 1..Len(s.participants) |-> k]

\* Workshop.handle_next_command, one iteration of the loop; choice is the
\* position random.choice draws in available_participants
next_iteration(s, args, choice, reply, gen, chk) ==
    IF args = <<>>
    THEN IF available_participants(s) = <<>> THEN Raise(s, "IndexError", "pick_failed")
         ELSE take_participant_turn(s, available_participants(s)[choice], gen, chk)
    ELSE LET picked == IF args[1] = <<"?">> THEN llm_pick_participant(s, reply)
                       ELSE pick_participant_by_name(s, args[1])
         IN  IF picked.exc # "none" THEN Raise(picked.w, picked.exc, "pick_failed")
             ELSE take_participant_turn(picked.w, picked.next_participant, gen, chk)

\* Workshop.handle_next_command before the loop: the number of iterations and
\* the args left once a leading count is removed
turn_to_take(args) == IF args # <<>> /\ isdigit(args[1]) THEN int(args[1]) ELSE 1
args_after_count(args) == IF args # <<>> /\ isdigit(args[1]) THEN Tail(args) ELSE args

----------------------------------------------------------------------------
(* Persistence *)

\* the user's snapshot file and the file handle_exit_command writes
SNAPSHOT_FILE == <<"s",".","j","s","o","n">>
WORKSHOP_STATE_JSON == <<"w","o","r","k","s","h","o","p","_","s","t","a","t","e",
                         ".","j","s","o","n">>
\* a snapshot the user kept from an earlier session
OLD_FILE == <<"o",".","j","s","o","n">>
Files == {SNAPSHOT_FILE, WORKSHOP_STATE_JSON, OLD_FILE}

NoFile == [kind |-> "missing", data |-> <<>>]
\* a file opened for writing whose json.dump raised part way
TruncatedFile == [kind |-> "truncated", data |-> <<>>]

\* asdict(p) if p else None, with JSON null as the empty list
participant_to_json(p) == IF p # None THEN <<p>> ELSE <<>>
\* Participant(**d) if d else None
participant_from_json(d) == IF d # <<>> THEN d[1] ELSE None

\* json can encode every feedback line except the rich Pretty object that
\* handle_show_command appends
json_serializable(s) ==
    \A k \in 1..Len(s.control_feedback) : s.control_feedback[k] # M_PRETTY

\* Workshop.save_state: the file it leaves behind, and the exception
save_state(s) ==
    IF ~json_serializable(s) THEN [file |-> TruncatedFile, exc |-> "TypeError"]
    ELSE [file |-> [kind |-> "json",
                    data |-> <<[transcript_content |-> s.transcript_content,
                                control_feedback |-> s.control_feedback,
                                global_config |-> s.global_config,
                                participants |-> s.participants,
                                facilitator |-> participant_to_json(s.facilitator),
                                current_participant_index |-> s.current_participant_index,
                                state |-> s.state,
                                previous_participant |->
                                    participant_to_json(s.previous_participant),
                                current_turn |-> s.current_turn,
                                tokens_used |-> s.tokens_used,
                                context_length |-> s.context_length,
                                current_round |-> s.current_round]>>],
          exc |-> "none"]

\* the attributes of the instance in the order load_state assigns them
LOAD_ORDER == <<"transcript_content", "control_feedback", "global_config",
                "participants", "facilitator", "current_participant_index",
                "state", "previous_participant", "current_turn", "tokens_used",
                "context_length", "current_round">>

\* the value load_state builds for an attribute from the decoded mapping
loaded_value(state, field) ==
    IF field \in {"facilitator", "previous_participant"}
    THEN participant_from_json(state[field])
    ELSE state[field]

\* Workshop.load_state: the file is opened and decoded, then the attributes
\* are assigned from the mapping one after the other.  The first key the
\* mapping lacks raises KeyError and leaves the attributes before it assigned.
load_state(s, file) ==
    IF file.kind = "missing" THEN Raise(s, "FileNotFoundError", "load_error")
    ELSE IF file.kind = "truncated" THEN Raise(s, "JSONDecodeError", "load_error")
    ELSE LET state == file.data[1]
             absent == {k \in 1..Len(LOAD_ORDER) : LOAD_ORDER[k] \notin DOMAIN state}
             assigned == IF absent = {} THEN Len(LOAD_ORDER)
                         ELSE (CHOOSE k \in absent : \A m \in absent : k <= m) - 1
             take(field) == IF \E k \in 1..assigned : LOAD_ORDER[k] = field
                            THEN loaded_value(state, field) ELSE s[field]
             w == [transcript_content |-> take("transcript_content"),
                   control_feedback |-> take("control_feedback"),
                   global_config |-> take("global_config"),
                   participants |-> take("participants"),
                   facilitator |-> take("facilitator"),
                   current_participant_index |-> take("current_participant_index"),
                   state |-> take("state"),
                   previous_participant |-> take("previous_participant"),
                   current_turn |-> take("current_turn"),
                   tokens_used |-> take("tokens_used"),
                   context_length |-> take("context_length"),
                   current_round |-> take("current_round")]
         IN  IF absent = {} THEN Done(w, "loaded") ELSE Raise(w, "KeyError", "load_error")

\* Workshop.handle_backup_command; d is the disk
handle_backup_command(s, args, d) ==
    IF Len(args) = 1
    THEN LET saved == save_state(s)
         IN  IF saved.exc = "none"
             THEN [w |-> feedback(s, M_SAVED), exc |-> "none", branch |-> "saved",
                   disk |-> [d EXCEPT ![args[1]] = saved.file]]
             ELSE [w |-> feedback(s, M_SAVE_ERROR), exc |-> "none", branch |-> "save_error",
                   disk |-> [d EXCEPT ![args[1]] = saved.file]]
    ELSE [w |-> feedback(s, M_USAGE_SAVE), exc |-> "none", branch |-> "usage", disk |-> d]

\* Workshop.handle_restore_command
handle_restore_command(s, args, d) ==
    IF Len(args) = 1
    THEN LET loaded == load_state(s, IF args[1] \in Files THEN d[args[1]] ELSE NoFile)
         IN  IF loaded.exc = "none"
             THEN Done(feedback(loaded.w, M_LOADED), "loaded")
             ELSE Done(feedback(loaded.w, M_LOAD_ERROR), "load_error")
    ELSE Done(feedback(s, M_USAGE_LOAD), "usage")

\* Workshop.handle_exit_command: sys.exit raises SystemExit
handle_exit_command(s, d) ==
    LET b == handle_backup_command(feedback(s, M_EXITING), <<WORKSHOP_STATE_JSON>>, d)
    IN  [w |-> b.w, exc |-> "SystemExit", branch |-> b.branch, disk |-> b.disk]

----------------------------------------------------------------------------
(* Configuration *)

Ann == <<"A","n","n">>
Bob == <<"B","o","b">>
Bea == <<"B","e","a">>
Fay == <<"F","a","y">>
WorkshopName == <<"W">>

Entry(name, is_facilitator) == [name |-> name, is_facilitator |-> is_facilitator]

\* the configuration files on disk, by name; each passes the schema, and so
\* does every merge of them
SOLO_YAML  == <<"s","o","l","o">>
PAIR_YAML  == <<"p","a","i","r">>
TRIO_YAML  == <<"t","r","i","o">>
ConfigNames == {SOLO_YAML, PAIR_YAML, TRIO_YAML}
ConfigFile(filename) ==
    CASE filename = SOLO_YAML ->
           [workshop |-> [name |-> WorkshopName], participants |-> <<Entry(Ann, FALSE)>>]
      [] filename = PAIR_YAML ->
           [workshop |-> [name |-> WorkshopName],
            participants |-> <<Entry(Fay, TRUE), Entry(Bob, FALSE)>>]
      [] filename = TRIO_YAML ->
           [workshop |-> [name |-> WorkshopName],
            participants |-> <<Entry(Fay, TRUE), Entry(Bob, FALSE), Entry(Bea, FALSE)>>]

\* Workshop.merge_configs([a, b]): lists are extended, dicts updated (a name
\* of <<>> stands for a workshop mapping without the key)
merge_configs(a, b) ==
    [workshop |-> [name |-> IF b.workshop.name # <<>> THEN b.workshop.name
                            ELSE a.workshop.name],
     participants |-> a.participants \o b.participants]

\* Workshop.handle_load_command
handle_load_command(s, args) ==
    IF Len(args) = 1
    THEN IF args[1] \in ConfigNames
         THEN Done([feedback(s, M_CONFIG_LOADED) EXCEPT
                       !.global_config = merge_configs(s.global_config, ConfigFile(args[1]))],
                   "loaded")
         ELSE Done(feedback(s, M_CONFIG_ERROR), "load_error")
    ELSE Done(feedback(s, M_USAGE_LOAD), "usage")

\* Workshop.handle_show_command
handle_show_command(s) ==
    Done(feedback(feedback(s, M_CURRENT_CONFIG), M_PRETTY), "shown")

U_summerize == <<"s","u","m","m","e","r","i","z","e">>

\* Workshop.handle_util_command: summary.txt is the only thing written
handle_util_command(s, args, reply) ==
    IF args = <<>> THEN Done(feedback(s, M_USAGE_UTIL), "usage")
    ELSE IF args[1] = U_summerize
    THEN LET response == get_response(reply, FALSE)
         IN  IF response.exc # "none" THEN Raise(s, response.exc, "raised")
             ELSE Done(s, "summarized")
    ELSE Done(feedback(s, M_UNKNOWN_UTIL), "unknown_action")

----------------------------------------------------------------------------
(* Command lines *)

RECURSIVE split_words(_, _)
\* str.split(): the maximal runs of non-blank characters; word is the run
\* being read
split_words(s, word) ==
    IF s = <<>> THEN (IF word = <<>> THEN <<>> ELSE <<word>>)
    ELSE IF Head(s) = " "
    THEN (IF word = <<>> THEN <<>> ELSE <<word>>) \o split_words(Tail(s), <<>>)
    ELSE split_words(Tail(s), Append(word, Head(s)))

split(s) == split_words(s, <<>>)

\* handle_command: `parts`, for a line that starts with the marker
parts(line) == split(Tail(line))

Line(words) == <<"/">> \o join(words)

\* the lines the caller types
CommandLines ==
    {Line(<<V_load, f>>) : f \in ConfigNames \cup {<<"n","o">>}}
    \cup {Line(<<V_load>>), Line(<<V_show>>),
          Line(<<V_start>>), Line(<<V_start, <<"g","o">>>>),
          Line(<<V_say>>), Line(<<V_say, <<"h","i">>>>),
          Line(<<V_next>>), Line(<<V_next, <<"2">>>>),
          Line(<<V_next, <<"?">>>>), Line(<<V_next, <<"b">>>>),
          Line(<<V_next, <<"z","e","d">>>>),
          Line(<<V_end>>),
          Line(<<V_util>>), Line(<<V_util, U_summerize>>), Line(<<V_util, <<"z","i","p">>>>),
          Line(<<V_backup, SNAPSHOT_FILE>>), Line(<<V_backup>>),
          Line(<<V_restore, SNAPSHOT_FILE>>), Line(<<V_restore>>),
          Line(<<V_restore, OLD_FILE>>),
          Line(<<V_exit>>),
          Line(<< <<"h","e","l","p">> >>),
          V_start, <<"/">>, <<"/"," ">>}

Verbs == {V_load, V_show, V_start, V_say, V_next, V_end, V_util, V_backup,
          V_restore, V_exit}

\* handle_command reaches the handler of verb
Dispatches(line, verb) ==
    /\ startswith(line, <<"/">>)
    /\ parts(line) # <<>>
    /\ parts(line)[1] = verb

args_of(line) == Tail(parts(line))

\* the argument lists the handler of verb is called with
ArgsFor(verb) == {args_of(line) : line \in {l \in CommandLines : Dispatches(l, verb)}}

\* the calls of the caller by the branch of handle_command they take
LoadArgs == ArgsFor(V_load)
ShowArgs == ArgsFor(V_show)
StartArgs == ArgsFor(V_start)
SayArgs == ArgsFor(V_say)
NextArgs == ArgsFor(V_next)
EndArgs == ArgsFor(V_end)
UtilArgs == ArgsFor(V_util)
BackupArgs == ArgsFor(V_backup)
RestoreArgs == ArgsFor(V_restore)
ExitArgs == ArgsFor(V_exit)
InvalidLines == {line \in CommandLines : ~startswith(line, <<"/">>)}
NoVerbLines  == {line \in CommandLines : startswith(line, <<"/">>) /\ parts(line) = <<>>}
UnknownLines == {line \in CommandLines : /\ startswith(line, <<"/">>)
                                         /\ parts(line) # <<>>
                                         /\ parts(line)[1] \notin Verbs}

\* what the provider may answer
Tokens == {7}
CheckerAnswers == {<<"P","A","S","S">>, <<" ","p","a","s","s","e","d">>,
                   <<"F","A","I","L">>}
Failure == Reply(FALSE, <<>>, 0)
GenReplies == {Reply(TRUE, <<"h","i">>, n) : n \in Tokens}
ChkReplies == {Failure} \cup {Reply(TRUE, a, 1) : a \in CheckerAnswers}
\* the replies to the two calls of one turn; the checker is not called once
\* the first call failed
TurnReplies == {[gen |-> Failure, chk |-> Failure]}
               \cup {[gen |-> g, chk |-> c] : g \in GenReplies, c \in ChkReplies}
PickReplies == {Failure, Reply(TRUE, NEXT_SPEAKER \o <<" ">> \o Bob, 1),
                Reply(TRUE, <<"B","e","a">>, 1),
                Reply(TRUE, NEXT_SPEAKER \o <<" ">> \o <<"Z","e","d">>, 1),
                Reply(TRUE, NEXT_SPEAKER, 1)}

----------------------------------------------------------------------------
(* The state machine *)

\* the session of the kept snapshot: a new instance after `/load solo`
OLD_SESSION == handle_load_command(NewWorkshop, <<SOLO_YAML>>).w

\* the kept snapshot: what save_state wrote for that session, from which the
\* key "current_turn" has since been removed
OLD_SNAPSHOT ==
    LET full == save_state(OLD_SESSION).file.data[1]
    IN  [kind |-> "json",
         data |-> <<[transcript_content |-> full.transcript_content,
                     control_feedback |-> full.control_feedback,
                     global_config |-> full.global_config,
                     participants |-> full.participants,
                     facilitator |-> full.facilitator,
                     current_participant_index |-> full.current_participant_index,
                     state |-> full.state,
                     previous_participant |-> full.previous_participant,
                     tokens_used |-> full.tokens_used,
                     context_length |-> full.context_length,
                     current_round |-> full.current_round]>>]

Init ==
    /\ workshop = NewWorkshop
    /\ disk = [f \in Files |-> IF f = OLD_FILE THEN OLD_SNAPSHOT ELSE NoFile]
    /\ uuid_count = 0
    /\ raised = "none"
    /\ turns_left = 0
    /\ loop_args = <<>>
    /\ outcome = [handler |-> "init", branch |-> "init"]
    /\ exited = FALSE

\* the lines that report an error or a usage hint
Diagnostics ==
    {M_UNKNOWN, M_INVALID, M_SAVE_ERROR, M_USAGE_SAVE, M_LOAD_ERROR, M_USAGE_LOAD,
     M_CONFIG_ERROR, M_ALREADY, M_NO_WORKSHOP, M_USAGE_SAY, M_NOT_STARTED, M_NO_MATCH,
     M_USAGE_UTIL, M_UNKNOWN_UTIL}

\* the caller hands over a line: the process runs, no handler is in its loop,
\* and no diagnostic has ended the exploration
Accepting ==
    /\ ~exited
    /\ turns_left = 0
    /\ Cardinality({k \in 1..Len(workshop.control_feedback) :
                       workshop.control_feedback[k] \in Diagnostics}) < MaxDiagnostics

\* the caller hands over a line outside the conversation (a malformed line,
\* show, util, backup, restore, exit): within the first MaxAdminAt messages
Administering == Accepting /\ Len(workshop.control_feedback) <= MaxAdminAt

\* the instance a step leaves is within the bounds of the model
WithinBounds(s) ==
    /\ Len(s.control_feedback) <= MaxFeedback
    /\ Cardinality({k \in 1..Len(s.control_feedback) :
                       s.control_feedback[k] \in Diagnostics}) <= MaxDiagnostics
    /\ s.current_turn <= MaxTurn
    /\ Len(s.global_config.participants) <= MaxConfig

\* a handler that leaves the disk and the loop alone returns r
Returns(handler, r) ==
    /\ WithinBounds(r.w)
    /\ workshop' = r.w
    /\ raised' = r.exc
    /\ outcome' = [handler |-> handler, branch |-> r.branch]

\* handle_command: a line without the marker
InvalidFormat ==
    \E line \in InvalidLines :
        /\ Administering
        /\ Returns("handle_command", Done(feedback(workshop, M_INVALID), "invalid"))
        /\ UNCHANGED <<disk, uuid_count, turns_left, loop_args, exited>>

\* handle_command: the marker and nothing else, parts[0] raises
NoVerb ==
    \E line \in NoVerbLines :
        /\ Administering
        /\ Returns("handle_command", Raise(workshop, "IndexError", "no_verb"))
        /\ UNCHANGED <<disk, uuid_count, turns_left, loop_args, exited>>

\* handle_command: the else branch
UnknownCommand ==
    \E line \in UnknownLines :
        /\ Administering
        /\ Returns("handle_command", Done(feedback(workshop, M_UNKNOWN), "unknown"))
        /\ UNCHANGED <<disk, uuid_count, turns_left, loop_args, exited>>

Load ==
    \E args \in LoadArgs :
        /\ Accepting
        /\ Returns("load", handle_load_command(workshop, args))
        /\ UNCHANGED <<disk, uuid_count, turns_left, loop_args, exited>>

Show ==
    \E args \in ShowArgs :
        /\ Administering
        /\ Returns("show", handle_show_command(workshop))
        /\ UNCHANGED <<disk, uuid_count, turns_left, loop_args, exited>>

\* handle_start_command gets as far as extract_participants
extracts(s) == s.state # STARTED /\ s.global_config.workshop.name # <<>>

Start ==
    \E args \in StartArgs :
        /\ Accepting
        /\ IF extracts(workshop)
           THEN LET drawn == Len(workshop.global_config.participants)
                    n == Len(extract_participants_unshuffled(workshop, uuid_count).participants)
                IN  /\ uuid_count + drawn <= MaxUuid
                    /\ uuid_count' = uuid_count + drawn
                    /\ \E perm \in Permutations(1..n), replies \in TurnReplies :
                         Returns("start",
                                 handle_start_command(workshop, args, uuid_count,
                                                      perm, replies.gen, replies.chk))
           ELSE /\ Returns("start",
                           handle_start_command(workshop, args, uuid_count,
                                                <<>>, Failure, Failure))
                /\ UNCHANGED uuid_count
        /\ UNCHANGED <<disk, turns_left, loop_args, exited>>

Say ==
    \E args \in SayArgs, replies \in TurnReplies :
        /\ Accepting
        /\ Returns("say", handle_say_command(workshop, args, replies.gen, replies.chk))
        /\ UNCHANGED <<disk, uuid_count, turns_left, loop_args, exited>>

\* the selection mode of an iteration of handle_next_command
mode(args) == IF args = <<>> THEN "next_random"
              ELSE IF args[1] = <<"?">> THEN "next_llm"
              ELSE "next_by_name"

\* handle_next_command, the iteration of `for _ in range(turn_to_take)` that
\* leaves `rest` iterations to run; an exception ends the loop
Iteration(args, rest) ==
    \E choice \in 1..(IF args = <<>> /\ available_participants(workshop) # <<>>
                      THEN Len(available_participants(workshop)) ELSE 1),
       reply \in (IF mode(args) = "next_llm" THEN PickReplies ELSE {Failure}),
       replies \in TurnReplies :
         LET r == next_iteration(workshop, args, choice, reply, replies.gen, replies.chk)
         IN  /\ WithinBounds(r.w)
             /\ workshop' = r.w
             /\ raised' = r.exc
             /\ outcome' = [handler |-> mode(args), branch |-> r.branch]
             /\ turns_left' = IF r.exc = "none" THEN rest ELSE 0
             /\ loop_args' = IF turns_left' = 0 THEN <<>> ELSE args

\* handle_next_command up to the end of the first iteration
Next_ ==
    \E args \in NextArgs :
        /\ Accepting
        /\ IF workshop.state # STARTED
           THEN /\ Returns("next", Done(feedback(workshop, M_NOT_STARTED), "not_started"))
                /\ UNCHANGED <<turns_left, loop_args>>
           ELSE LET n == turn_to_take(args)
                IN  /\ workshop.current_turn + n <= MaxTurn
                    /\ Len(workshop.control_feedback) + n <= MaxFeedback
                    /\ IF n = 0
                       THEN /\ Returns("next", Done(workshop, "no_iteration"))
                            /\ UNCHANGED <<turns_left, loop_args>>
                       ELSE Iteration(args_after_count(args), n - 1)
        /\ UNCHANGED <<disk, uuid_count, exited>>

\* handle_next_command, a later iteration of the loop
NextTurn ==
    /\ ~exited
    /\ turns_left > 0
    /\ Iteration(loop_args, turns_left - 1)
    /\ UNCHANGED <<disk, uuid_count, exited>>

End ==
    \E args \in EndArgs :
        /\ Accepting
        /\ Returns("end", handle_endsession_command(workshop))
        /\ UNCHANGED <<disk, uuid_count, turns_left, loop_args, exited>>

Util ==
    \E args \in UtilArgs, reply \in PickReplies :
        /\ Administering
        /\ Returns("util", handle_util_command(workshop, args, reply))
        /\ UNCHANGED <<disk, uuid_count, turns_left, loop_args, exited>>

Backup ==
    \E args \in BackupArgs :
        /\ Administering
        /\ LET r == handle_backup_command(workshop, args, disk)
           IN  Returns("backup", r) /\ disk' = r.disk
        /\ UNCHANGED <<uuid_count, turns_left, loop_args, exited>>

Restore ==
    \E args \in RestoreArgs :
        /\ Administering
        /\ Returns("restore", handle_restore_command(workshop, args, disk))
        /\ UNCHANGED <<disk, uuid_count, turns_left, loop_args, exited>>

Exit ==
    \E args \in ExitArgs :
        /\ Administering
        /\ LET r == handle_exit_command(workshop, disk)
           IN  Returns("exit", r) /\ disk' = r.disk
        /\ exited' = TRUE
        /\ UNCHANGED <<uuid_count, turns_left, loop_args>>

\* main: what the handlers of the lines that call the provider return when
\* their first provider call raises, with the uuids drawn up to that call;
\* base is the number of uuids drawn so far
blocked_calls(s, base) ==
    LET n == Len(extract_participants_unshuffled(s, base).participants)
        drawn == IF extracts(s) THEN Len(s.global_config.participants) ELSE 0
        choices == IF available_participants(s) # <<>>
                   THEN 1..Len(available_participants(s)) ELSE {1}
    IN  {[r |-> handle_say_command(s, args, Failure, Failure), uuids |-> base] :
            args \in SayArgs}
        \cup {[r |-> next_iteration(s, args_after_count(args), choice,
                                    Failure, Failure, Failure),
               uuids |-> base] :
                args \in {a \in NextArgs : s.state = STARTED /\ turn_to_take(a) > 0},
                choice \in choices}
        \cup {[r |-> handle_start_command(s, args, base, perm, Failure, Failure),
               uuids |-> base + drawn] :
                args \in StartArgs,
                perm \in (IF extracts(s) THEN Permutations(1..n) ELSE {<<>>})}

\* main: KeyboardInterrupt arrives while a command is blocked in a provider
\* call; the except clause hands "/exit" to handle_command, whose sys.exit
\* ends the process
Interrupt ==
    \E call \in blocked_calls(workshop, uuid_count) :
        /\ Accepting
        /\ call.r.exc = ProviderError
        /\ WithinBounds(call.r.w)
        /\ call.uuids <= MaxUuid
        /\ LET r == handle_exit_command(call.r.w, disk)
           IN  /\ workshop' = r.w
               /\ raised' = r.exc
               /\ outcome' = [handler |-> "interrupt", branch |-> r.branch]
               /\ disk' = r.disk
        /\ uuid_count' = call.uuids
        /\ exited' = TRUE
        /\ UNCHANGED <<turns_left, loop_args>>

Next ==
    \/ InvalidFormat \/ NoVerb \/ UnknownCommand
    \/ Load \/ Show \/ Start \/ Say \/ Next_ \/ NextTurn \/ End
    \/ Util \/ Backup \/ Restore \/ Exit \/ Interrupt

Spec == Init /\ [][Next]_vars

----------------------------------------------------------------------------
(* Properties of the turn counter and the transcript *)

\* C1: every iteration of handle_next_command that attempts a turn (calls
\* take_participant_turn on a participant) raises current_turn by exactly
\* one, whether the provider call of the turn succeeds or fails; a `next`
\* that attempts no turn leaves the counter where it was.
NextAdvancesTurnByOne ==
    [][outcome'.handler \in {"next", "next_random", "next_by_name", "next_llm"}
         => workshop'.current_turn =
              workshop.current_turn
              + (IF outcome'.branch \in {"spoke", "turn_failed"} THEN 1 ELSE 0)]_vars

\* a third turn was attempted by `next` and its provider call failed
FailedNextCounted ==
    /\ outcome.handler = "next_random"
    /\ outcome.branch = "turn_failed"
    /\ raised = ProviderError
    /\ workshop.current_turn = 3
    /\ Len(workshop.transcript_content) = 2

\* C2: the entries of transcript_content carry strictly increasing turn
\* values (so no two carry the same one), none above current_turn.
TranscriptTurnsIncrease ==
    LET t == workshop.transcript_content
    IN  /\ \A i, j \in 1..Len(t) : i < j => t[i].turn < t[j].turn
        /\ \A i \in 1..Len(t) : t[i].turn <= workshop.current_turn

\* two entries with a failed turn between them: turn 2 is in no entry
TranscriptSkipsFailedTurn ==
    LET t == workshop.transcript_content
    IN  /\ Len(t) = 2
        /\ t[1].turn = 1
        /\ t[2].turn = 3
        /\ workshop.current_turn = 3

\* C3: a `start` issued while the workshop is not in progress fails when the
\* configuration has no workshop name and when extraction leaves no
\* participant: it returns, the phase is the one before (NotStarted stays
\* NotStarted), transcript and current_turn are the ones before, and the
\* last line of control_feedback is the message of the failure.
FailedStartTakesNoTurn ==
    [][/\ outcome'.handler = "start"
       /\ workshop.state # STARTED
       /\ \/ workshop.global_config.workshop.name = <<>>
          \/ extract_participants_unshuffled(workshop, uuid_count).participants = <<>>
       => /\ outcome'.branch \in {"unnamed", "empty_roster"}
          /\ raised' = "none"
          /\ workshop'.state = workshop.state
          /\ workshop'.transcript_content = workshop.transcript_content
          /\ workshop'.current_turn = workshop.current_turn
          /\ Len(workshop'.control_feedback) > Len(workshop.control_feedback)
          /\ workshop'.control_feedback[Len(workshop'.control_feedback)]
               \in {M_NO_WORKSHOP, M_NO_PARTICIPANTS}]_vars

\* a start has failed for its empty roster, the workshop is not started
StartFailedOnEmptyRoster ==
    /\ outcome = [handler |-> "start", branch |-> "empty_roster"]
    /\ workshop.state = NOT_STARTED
    /\ workshop.participants = <<>>
    /\ workshop.control_feedback[Len(workshop.control_feedback)] = M_NO_PARTICIPANTS

----------------------------------------------------------------------------
(* Properties of the lifecycle *)

\* C4: a `start` that fails for an unnamed workshop or an empty roster
\* leaves every field of the session but control_feedback as it was.
FailedStartLeavesSession ==
    [][outcome'.handler = "start" /\ outcome'.branch \in {"unnamed", "empty_roster"}
         => workshop' = [workshop EXCEPT
                            !.control_feedback = workshop'.control_feedback]]_vars

\* C5: no command but the restoring of a snapshot appends to the transcript
\* or advances current_turn while the phase is Ending, and none but those
\* and a `start` that starts the workshop does so while it is NotStarted.
TurnsOnlyWhileStarted ==
    [][/\ outcome'.handler # "restore"
       /\ \/ workshop.state = ENDING
          \/ /\ workshop.state = NOT_STARTED
             /\ ~(outcome'.handler = "start" /\ workshop'.state = STARTED)
       => /\ workshop'.transcript_content = workshop.transcript_content
          /\ workshop'.current_turn = workshop.current_turn]_vars

\* C6: once the phase is Ending no command but the restoring of a snapshot
\* changes it, and the roster stays the one extracted.
EndingIsTerminal ==
    [][workshop.state = ENDING /\ outcome'.handler # "restore"
         => /\ workshop'.state = ENDING
            /\ workshop'.participants = workshop.participants
            /\ workshop'.facilitator = workshop.facilitator]_vars

\* C7: a `start` of a named workshop that is NotStarted, whose roster is not
\* empty after extraction and whose provider calls succeed, leaves the phase
\* Started, the transcript one entry longer, that entry spoken by the
\* facilitator, and current_turn gone from 0 to 1.
StartTakesOpeningTurn ==
    [][/\ outcome' = [handler |-> "start", branch |-> "spoke"]
       /\ workshop.state = NOT_STARTED
       => /\ workshop'.state = STARTED
          /\ Len(workshop'.transcript_content) = Len(workshop.transcript_content) + 1
          /\ SubSeq(workshop'.transcript_content, 1, Len(workshop.transcript_content))
               = workshop.transcript_content
          /\ workshop'.transcript_content[Len(workshop'.transcript_content)].participant_uuid
               = workshop'.facilitator.uuid
          /\ workshop.current_turn = 0
          /\ workshop'.current_turn = 1]_vars

----------------------------------------------------------------------------
(* Properties of a failed provider call *)

\* C8: when the provider call of a turn of `next`, `say` or `start` fails,
\* handle_command returns to its caller, with the failure as the last line
\* of control_feedback.
ProviderFailureIsReported ==
    [][/\ outcome'.handler \in {"start", "say", "next_random", "next_by_name", "next_llm"}
       /\ outcome'.branch = "turn_failed"
       /\ workshop'.facilitator # None
       => /\ raised' = "none"
          /\ Len(workshop'.control_feedback) > Len(workshop.control_feedback)]_vars

\* C9: when the provider call of a turn of `say` or `next` fails in a
\* started workshop, the transcript, previous_participant, tokens_used and
\* the bookkeeping of every participant are the ones before the turn: only
\* current_turn and control_feedback may differ.
FailedTurnChangesOnlyTurn ==
    [][/\ workshop.state = STARTED
       /\ outcome'.handler \in {"say", "next_random", "next_by_name", "next_llm"}
       /\ outcome'.branch = "turn_failed"
       /\ raised' = ProviderError
       => workshop' = [workshop EXCEPT
                          !.current_turn = workshop'.current_turn,
                          !.control_feedback = workshop'.control_feedback]]_vars

----------------------------------------------------------------------------
(* Properties of the selection *)

\* C10: an iteration of `next` without a name on a roster that is not empty
\* attempts the turn of one of its participants; on a roster of two or more
\* that participant is not previous_participant, so nobody takes two turns
\* in a row; on a roster of the previous speaker alone it is that speaker.
RandomExcludesPrevious ==
    [][outcome'.handler = "next_random" /\ workshop.participants # <<>>
         => /\ outcome'.branch \in {"spoke", "turn_failed"}
            /\ \E i \in 1..Len(workshop.participants) :
                 workshop'.previous_participant.uuid = workshop.participants[i].uuid
            /\ Len(workshop.participants) >= 2
                 => workshop'.previous_participant.uuid
                      # workshop.previous_participant.uuid]_vars

\* two turns of participants in a row on a roster of two, the second one
\* drawn by `next` without a name
RandomTurnAfterParticipantTurn ==
    LET t == workshop.transcript_content
    IN  /\ outcome = [handler |-> "next_random", branch |-> "spoke"]
        /\ Len(workshop.participants) >= 2
        /\ Len(t) >= 3
        /\ t[Len(t) - 1].participant_uuid # workshop.facilitator.uuid
        /\ t[Len(t) - 1].turn + 1 = t[Len(t)].turn
        /\ t[Len(t)].participant_uuid # t[Len(t) - 1].participant_uuid

\* C11: an iteration of `next ?` on a roster that is not empty, unless a
\* provider call of it fails, raises nothing and appends one entry spoken by
\* a participant of the roster (whatever the suggestion was: a name of the
\* roster, a name nobody has, or no name).
SuggestionFallsBackToRandom ==
    [][/\ outcome'.handler = "next_llm"
       /\ workshop.participants # <<>>
       /\ raised' # ProviderError
       => /\ raised' = "none"
          /\ Len(workshop'.transcript_content) = Len(workshop.transcript_content) + 1
          /\ \E i \in 1..Len(workshop.participants) :
               workshop'.transcript_content[Len(workshop'.transcript_content)].participant_uuid
                 = workshop.participants[i].uuid]_vars

\* C12: in a started workshop with a roster, for every suggestion the
\* provider returns, the iteration of `next ?` whose turn the provider
\* answers appends one entry, spoken by a participant of the roster, not by
\* the facilitator, and not by previous_participant when the roster has
\* another participant.
SuggestedSpeakerIsValid ==
    \A reply \in PickReplies, replies \in TurnReplies :
        /\ workshop.state = STARTED
        /\ workshop.participants # <<>>
        /\ reply.ok /\ replies.gen.ok /\ replies.chk.ok
        => LET r == next_iteration(workshop, << <<"?">> >>, 1, reply,
                                   replies.gen, replies.chk)
               t == r.w.transcript_content
           IN  /\ Len(t) = Len(workshop.transcript_content) + 1
               /\ \E i \in 1..Len(workshop.participants) :
                    t[Len(t)].participant_uuid = workshop.participants[i].uuid
               /\ t[Len(t)].participant_uuid # workshop.facilitator.uuid
               /\ Len(workshop.participants) >= 2
                    => t[Len(t)].participant_uuid # workshop.previous_participant.uuid

\* C13: for every query, pick_participant_by_name returns the first
\* participant in roster order whose name starts with the query, letter case
\* ignored, and None (0) exactly when no name does.
FirstPrefixMatchIsPicked ==
    \A q \in {<<>>, <<"b">>, <<"B">>, <<"b","E">>, <<"B","O","B">>, <<"b","o","b","s">>,
              <<"a">>, <<"e","a">>, <<"z","e","d">>} :
        LET ps == workshop.participants
            HasPrefix(i) == /\ Len(q) <= Len(ps[i].name)
                            /\ \A k \in 1..Len(q) :
                                 lower_char(ps[i].name[k]) = lower_char(q[k])
            r == pick_participant_by_name(workshop, q).next_participant
        IN  IF \E i \in 1..Len(ps) : HasPrefix(i)
            THEN /\ r \in 1..Len(ps)
                 /\ HasPrefix(r)
                 /\ \A j \in 1..(r - 1) : ~HasPrefix(j)
            ELSE r = 0

\* `next b` on the roster [Bea, Bob]: Bea, the first of the two, has spoken
FirstOfTwoMatchesSpoke ==
    LET ps == workshop.participants
        t  == workshop.transcript_content
    IN  /\ outcome = [handler |-> "next_by_name", branch |-> "spoke"]
        /\ Len(ps) = 2
        /\ ps[1].name = Bea
        /\ ps[2].name = Bob
        /\ t[Len(t)].participant_uuid = ps[1].uuid

\* C14: in a started workshop, `next <name>` with a name that is the prefix
\* of no participant's name returns with the error as the one new line of
\* control_feedback and every other field as it was, whatever the provider
\* would have answered (it is not called).
UnmatchedNameTakesNoTurn ==
    \A q \in {<<"z","e","d">>, <<"b","o","b","s">>, <<"a">>, <<"b">>},
       replies \in TurnReplies :
        /\ workshop.state = STARTED
        /\ \A i \in 1..Len(workshop.participants) :
             ~startswith(lower(workshop.participants[i].name), lower(q))
        => next_iteration(workshop, <<q>>, 1, Failure, replies.gen, replies.chk)
             = Done(feedback(workshop, M_NO_MATCH), "no_turn")

\* `next zed` has returned in a started workshop with a roster
UnmatchedNameReported ==
    /\ outcome = [handler |-> "next_by_name", branch |-> "no_turn"]
    /\ raised = "none"
    /\ workshop.state = STARTED
    /\ workshop.participants # <<>>
    /\ workshop.control_feedback[Len(workshop.control_feedback)] = M_NO_MATCH

----------------------------------------------------------------------------
(* Properties of the roster *)

\* C15: after every step the facilitator's uuid is the uuid of no entry of
\* participants, and an entry appended by `next` (random, by name or by
\* suggestion) is not spoken by the facilitator.
FacilitatorOutsideRoster ==
    [][/\ \A i \in 1..Len(workshop'.participants) :
            workshop'.participants[i].uuid # workshop'.facilitator.uuid
       /\ /\ outcome'.handler \in {"next_random", "next_by_name", "next_llm"}
          /\ outcome'.branch = "spoke"
          => LET t == workshop'.transcript_content
             IN  /\ Len(t) = Len(workshop.transcript_content) + 1
                 /\ t[Len(t)].participant_uuid # workshop'.facilitator.uuid
                 /\ \E i \in 1..Len(workshop'.participants) :
                      t[Len(t)].participant_uuid = workshop'.participants[i].uuid]_vars

\* a participant has spoken through `next` after both the facilitator
\* (start) and a say
ParticipantSpokeAfterFacilitator ==
    LET t == workshop.transcript_content
    IN  /\ outcome.handler \in {"next_random", "next_by_name"}
        /\ outcome.branch = "spoke"
        /\ Len(t) = 3
        /\ t[1].participant_uuid = workshop.facilitator.uuid
        /\ t[2].participant_uuid = workshop.facilitator.uuid
        /\ t[3].participant_uuid # workshop.facilitator.uuid

\* C16: when previous_participant is set, some entry of the transcript was
\* spoken by it.
PreviousSpeakerHasSpoken ==
    workshop.previous_participant # None
        => \E k \in 1..Len(workshop.transcript_content) :
             workshop.transcript_content[k].participant_uuid
               = workshop.previous_participant.uuid

\* C17: a `start` that extracts the roster from a configuration that is not
\* empty: when no entry is marked, the first configured entry is the
\* facilitator afterwards, the pool holds one entry fewer than the
\* configuration and the warning is among the new lines of control_feedback;
\* when an entry is marked, a marked entry is the facilitator and there is no
\* warning.
UnmarkedRosterPromotesFirst ==
    [][/\ outcome'.handler = "start"
       /\ extracts(workshop)
       /\ workshop.global_config.participants # <<>>
       => LET cfg == workshop.global_config.participants
              new == SubSeq(workshop'.control_feedback,
                            Len(workshop.control_feedback) + 1,
                            Len(workshop'.control_feedback))
              warned == \E k \in 1..Len(new) : new[k] = M_WARN_NO_FACILITATOR
          IN  IF \A k \in 1..Len(cfg) : ~cfg[k].is_facilitator
              THEN /\ workshop'.facilitator.uuid = uuid_count + 1
                   /\ workshop'.facilitator.name = cfg[1].name
                   /\ workshop'.facilitator.is_facilitator
                   /\ Len(workshop'.participants) = Len(cfg) - 1
                   /\ warned
              ELSE /\ \E k \in 1..Len(cfg) :
                        /\ cfg[k].is_facilitator
                        /\ workshop'.facilitator.uuid = uuid_count + k
                   /\ ~warned]_vars

\* C18: a turn that succeeds leaves its speaker, facilitator or participant,
\* with one contribution more and with last_spoke_turn the turn of the entry
\* appended.
SpeakerBookkeepingUpdated ==
    [][/\ outcome'.branch = "spoke"
       /\ outcome'.handler \in {"say", "next_random", "next_by_name", "next_llm"}
       => LET t == workshop'.transcript_content
              e == t[Len(t)]
              Is(p) == p.uuid = e.participant_uuid
              before == IF Is(workshop.facilitator) THEN workshop.facilitator
                        ELSE workshop.participants[
                                 CHOOSE i \in 1..Len(workshop.participants) :
                                     Is(workshop.participants[i])]
              after  == IF Is(workshop'.facilitator) THEN workshop'.facilitator
                        ELSE workshop'.participants[
                                 CHOOSE i \in 1..Len(workshop'.participants) :
                                     Is(workshop'.participants[i])]
          IN  /\ after.contributions = before.contributions + 1
              /\ after.last_spoke_turn = e.turn]_vars

----------------------------------------------------------------------------
(* Properties of the checker and of the snapshot *)

\* C19: in a started workshop with a roster, a participant turn whose
\* contribution the provider returns appends that contribution whatever the
\* checker call does, prefixed `PASS: ` when the checker's answer begins
\* with pass (leading blanks and letter case ignored) and `FAIL: ` otherwise.
CheckIsAdvisory ==
    \A replies \in TurnReplies :
        /\ workshop.state = STARTED
        /\ workshop.participants # <<>>
        /\ replies.gen.ok
        => LET r == take_participant_turn(workshop, 1, replies.gen, replies.chk)
               t == r.w.transcript_content
               a == lstrip(replies.chk.content)
               passed == /\ replies.chk.ok
                         /\ Len(a) >= 4
                         /\ lower(SubSeq(a, 1, 4)) = <<"p","a","s","s">>
           IN  /\ r.exc = "none"
               /\ Len(t) = Len(workshop.transcript_content) + 1
               /\ t[Len(t)].content
                    = (IF passed THEN PASS_PREFIX ELSE FAIL_PREFIX) \o replies.gen.content

\* C20: save_state succeeds in every reachable state, and load_state of the
\* file it wrote gives an instance equal to the saved one in every field.
SnapshotRoundTrip ==
    LET saved == save_state(workshop)
    IN  /\ saved.exc = "none"
        /\ load_state(NewWorkshop, saved.file) = Done(workshop, "loaded")

\* C21: a malformed command line (no marker, the marker with no verb, an
\* unknown verb, a known verb with the wrong number of arguments) never
\* raises: it appends one control message and leaves everything else of the
\* session as it was.  The marker alone has no parts[0], so the step raises.
MalformedLineIsReported ==
    [][(outcome'.handler = "handle_command" \/ outcome'.branch = "usage")
        => /\ raised' = "none"
           /\ Len(workshop'.control_feedback) = Len(workshop.control_feedback) + 1
           /\ workshop' = [workshop EXCEPT
                  !.control_feedback = workshop'.control_feedback]
           /\ disk' = disk]_vars

RoundAdvancesAfterFullRound ==
    (/\ workshop.state = STARTED
     /\ workshop.participants # <<>>
     /\ \A i \in 1..Len(workshop.participants) :
           \E k \in 1..Len(workshop.transcript_content) :
              workshop.transcript_content[k].participant_uuid
                  = workshop.participants[i].uuid)
        => workshop.current_round > NewWorkshop.current_round

\* C24: the text a caller supplies to a facilitator turn reaches the
\* provider: for `say <text>` the prompt of the provider call of the turn is
\* built from <text>, and for `start` it is the prompt handle_start_command
\* built, from its arguments or from the workshop description.
SuppliedTextReachesProvider ==
    /\ (workshop.state = STARTED /\ workshop.facilitator # None)
          => \A args \in SayArgs :
                args # <<>>
                   => facilitator_prompt(workshop, say_prompt(workshop, args)).supplied
                          = join(args)
    /\ (extracts(workshop) /\ workshop.global_config.participants # <<>>)
          => \A args \in StartArgs :
                facilitator_prompt(workshop, start_prompt(workshop, args))
                    = start_prompt(workshop, args)

\* C25: a `start` issued while the phase is Started is a no-op: whatever its
\* arguments, the shuffle and the answers of the provider would be, it
\* appends the one line "Workshop is already in progress." and changes
\* nothing else of the session (roster, facilitator, current_turn,
\* transcript and previous_participant stay, no exception is raised).
StartWhileStartedIsNoOp ==
    workshop.state = STARTED
       => \A args \in StartArgs, replies \in TurnReplies,
             perm \in Permutations(1..Len(workshop.global_config.participants)) :
               handle_start_command(workshop, args, uuid_count, perm,
                                    replies.gen, replies.chk)
                   = Done([workshop EXCEPT !.control_feedback = Append(@, M_ALREADY)],
                          "already")

\* a started session has answered `start` with the status line
StartRefusedWhileStarted ==
    /\ outcome = [handler |-> "start", branch |-> "already"]
    /\ workshop.state = STARTED
    /\ workshop.transcript_content # <<>>
    /\ workshop.control_feedback[Len(workshop.control_feedback)] = M_ALREADY
    /\ raised = "none"

\* C26: the phase Ending is entered only from Started: a step of a command
\* other than restore that moves the session to Ending starts in the phase
\* Started.  handle_endsession_command does not look at the phase.
EndingOnlyFromStarted ==
    [][(workshop'.state = ENDING /\ workshop.state # ENDING
        /\ outcome'.handler # "restore")
          => workshop.state = STARTED]_vars

\* C27: a `restore` that fails (an unreadable file, a snapshot that lacks a
\* field) is reported as a control message without raising and leaves the
\* session as it was before the command, but for that message: no attribute
\* is replaced by snapshot data unless all are.
FailedRestoreChangesNothing ==
    [][outcome' = [handler |-> "restore", branch |-> "load_error"]
          => /\ raised' = "none"
             /\ workshop' = [workshop EXCEPT
                    !.control_feedback = Append(@, M_LOAD_ERROR)]
             /\ disk' = disk]_vars

====
